---------------------------- MODULE Spec2Model ----------------------------
(***************************************************************************)
(* Model of the fake-news webhook benchmark (src/workflow/webhook.py and   *)
(* its fixed-configuration twin src/workflow/webhook_trigger.py).          *)
(*                                                                         *)
(* The program is a linear pipeline: parse arguments and seed the random   *)
(* generator, load two CSV files, draw a sample, post every sampled record *)
(* to the webhook, interpret each response, print the summary.             *)
(*                                                                         *)
(* Text that the code inspects character by character (the values handed   *)
(* to parse_prediction) is a sequence of one-character strings, so that    *)
(* str(), lower() and strip() are computed, not assumed.                   *)
(***************************************************************************)
EXTENDS Integers, Sequences, FiniteSets, TLC

VARIABLES
    \* ---- the response interpreter on its own (SpecParse)
    response_data,        \* the argument of parse_prediction
    prediction,           \* what parse_prediction returned
    \* ---- the environment of a run
    script,               \* which of the two scripts runs
    env,                  \* what the endpoint may answer, what the clock may measure
    files,                \* which of the two CSV files exist, and their row counts
    \* ---- main()'s locals
    args,                 \* args.samples, args.seed
    rng,                  \* state of the module-level random generator
    fake_data, true_data, combined_data,
    sample_size, samples,
    i,                    \* index of the next sample of the for loop (1-based)
    y_true, y_pred, latencies,
    invalid_responses, successful_requests, failed_requests,
    \* ---- what the run did, as seen from outside
    pc,                   \* position of the run
    out,                  \* the sections printed on the console, in order
    log,                  \* the per-sample lines printed, in order
    sent,                 \* the records posted to the endpoint, in order
    answers,              \* what the endpoint answered to each request, in order
    report,               \* the figures of the classification block
    prev                  \* samples and log of the previous run (SpecTwoRuns)

parseVars == <<response_data, prediction>>
envVars   == <<script, env, files, args>>
mainVars  == <<rng, fake_data, true_data, combined_data, sample_size, samples, i,
               y_true, y_pred, latencies, invalid_responses,
               successful_requests, failed_requests, pc, out, log, sent,
               answers, report>>
vars      == <<parseVars, envVars, mainVars, prev>>

None == "None"

---------------------------------------------------------------------------
(* Bounds of the model                                                     *)

MaxFields  == 2    \* keys of a response object handed to parse_prediction
MaxFake    == 2    \* rows of the fake CSV file
MaxTrue    == 1    \* rows of the true CSV file
MaxSamples == 3    \* largest --samples value
MaxSeed    == 1    \* largest --seed value (the smallest is -1)
RngStates  == 3    \* states of the stand-in random generator

---------------------------------------------------------------------------
(* Python text: str(), str.lower(), str.strip()                            *)

Upper == <<"A","B","C","D","E","F","G","H","I","J","K","L","M",
           "N","O","P","Q","R","S","T","U","V","W","X","Y","Z">>
Lower == <<"a","b","c","d","e","f","g","h","i","j","k","l","m",
           "n","o","p","q","r","s","t","u","v","w","x","y","z">>
Whitespace == {" ", "\t", "\n", "\r"}
Digits == <<"0","1","2","3","4","5","6","7","8","9">>

lower_char(c) ==
    IF \E k \in 1..Len(Upper) : Upper[k] = c
    THEN Lower[CHOOSE k \in 1..Len(Upper) : Upper[k] = c]
    ELSE c

lower(s) == [k \in 1..Len(s) |-> lower_char(s[k])]

RECURSIVE lstrip(_)
lstrip(s) ==
    IF s # <<>> /\ Head(s) \in Whitespace THEN lstrip(Tail(s)) ELSE s

RECURSIVE rstrip(_)
rstrip(s) ==
    IF s # <<>> /\ s[Len(s)] \in Whitespace
    THEN rstrip(SubSeq(s, 1, Len(s) - 1)) ELSE s

strip(s) == rstrip(lstrip(s))

RECURSIVE str_nat(_)
str_nat(n) ==
    IF n < 10 THEN <<Digits[n + 1]>>
    ELSE str_nat(n \div 10) \o <<Digits[(n % 10) + 1]>>

str_int(n) == IF n < 0 THEN <<"-">> \o str_nat(-n) ELSE str_nat(n)

(* A JSON value: kind is "str" (s), "int" (n), "float" (the whole number   *)
(* n, as in 1.0), "bool" (n = 1 for True) or "null".                       *)
JStr(s)   == [kind |-> "str",   s |-> s,    n |-> 0]
JInt(n)   == [kind |-> "int",   s |-> <<>>, n |-> n]
JFloat(n) == [kind |-> "float", s |-> <<>>, n |-> n]
JBool(b)  == [kind |-> "bool",  s |-> <<>>, n |-> IF b THEN 1 ELSE 0]
JNull     == [kind |-> "null",  s |-> <<>>, n |-> 0]

str(v) ==
    CASE v.kind = "str"   -> v.s
      [] v.kind = "int"   -> str_int(v.n)
      [] v.kind = "float" -> str_int(v.n) \o <<".", "0">>
      [] v.kind = "bool"  -> IF v.n = 1 THEN <<"T","r","u","e">>
                                        ELSE <<"F","a","l","s","e">>
      [] v.kind = "null"  -> <<"N","o","n","e">>

---------------------------------------------------------------------------
(* parse_prediction                                                        *)

CandidateFields == <<"prediction", "label", "result", "classification", "output">>

FakeValues == { <<"f","a","k","e">>, <<"f","a","l","s","e">>, <<"0">> }
TrueValues == { <<"t","r","u","e">>, <<"r","e","a","l">>, <<"1">> }

(* The mutant: the value is lower-cased but not trimmed.                   *)
normalize_no_strip(v) == lower(str(v))

normalize(v) == strip(lower(str(v)))

(* The for loop of parse_prediction from candidate k on: a field that is   *)
(* present with a value in neither list does not end the loop.             *)
RECURSIVE scan_fields(_, _)
scan_fields(d, k) ==
    IF k > Len(CandidateFields) THEN None
    ELSE LET field == CandidateFields[k] IN
         IF field \in DOMAIN d
         THEN LET value == normalize(d[field]) IN
              IF value \in FakeValues THEN "fake"
              ELSE IF value \in TrueValues THEN "true"
              ELSE scan_fields(d, k + 1)
         ELSE scan_fields(d, k + 1)

(* The mutant: the first candidate field present decides on its own.       *)
RECURSIVE scan_first_only(_, _)
scan_first_only(d, k) ==
    IF k > Len(CandidateFields) THEN None
    ELSE LET field == CandidateFields[k] IN
         IF field \in DOMAIN d
         THEN LET value == normalize(d[field]) IN
              IF value \in FakeValues THEN "fake"
              ELSE IF value \in TrueValues THEN "true"
              ELSE None
         ELSE scan_first_only(d, k + 1)

(* A parsed response body: a JSON object (kind "dict", d its fields) or    *)
(* any other JSON value (a list, a string, a number, null).                *)
JDict(d)     == [kind |-> "dict", d |-> d]
JNonDict(k)  == [kind |-> k, d |-> <<>>]

parse_prediction_first_only(data) ==
    IF data.kind # "dict" THEN None ELSE scan_first_only(data.d, 1)

parse_prediction(data) ==
    IF data.kind # "dict" THEN None ELSE scan_fields(data.d, 1)

---------------------------------------------------------------------------
(* The environment: CSV files, the endpoint, the clock                     *)

TriggerSamples == 50     \* webhook_trigger.py samples min(50, len(combined_data))

NoPayload == JNonDict("null")

(* What one POST can meet: the connection fails, the status is an error,   *)
(* the body is not JSON, or the body is the JSON value payload.            *)
Transport     == [kind |-> "transport", payload |-> NoPayload]
HttpError     == [kind |-> "http",      payload |-> NoPayload]
NonJson       == [kind |-> "nonjson",   payload |-> NoPayload]
Json(payload) == [kind |-> "json",      payload |-> payload]

LabelFake  == Json(JDict([f \in {"label"} |-> JStr(<<"F","A","K","E">>)]))
ResultOne  == Json(JDict([f \in {"result"} |-> JStr(<<"1">>)]))
Maybe      == Json(JDict([f \in {"prediction"} |-> JStr(<<"m","a","y","b","e">>)]))

Responses     == {Transport, HttpError, NonJson, Maybe, LabelFake, ResultOne}
StubResponses == {Transport, Maybe, LabelFake}

SpecLatencies == {4}        \* milliseconds measured around one POST
Latencies     == {4, 9}

Seeds == [given : {TRUE}, value : -1..MaxSeed] \cup {[given |-> FALSE, value |-> 0]}

---------------------------------------------------------------------------
(* load_csv                                                                *)

(* The rows of one file, each tagged with the label; row is the line of    *)
(* the file the record came from.                                          *)
load_csv(file, label) ==
    [k \in 1..file.rows |-> [row |-> k, source |-> label]]

---------------------------------------------------------------------------
(* random: a stand-in generator.  Its state is a number below RngStates;   *)
(* random.seed(a) sets the state from abs(a), an unseeded generator starts *)
(* in any state.                                                           *)

abs(a) == IF a < 0 THEN -a ELSE a

seed_state(a) == abs(a) % RngStates

randbelow(s, n) == s % n
rng_next(s)     == (s + 1) % RngStates

(* The pool branch of random.sample, the one taken for a population of up  *)
(* to 21 records: result[idx] = pool[j], and the last live element of the  *)
(* pool moves into the hole.                                               *)
RECURSIVE sample_loop(_, _, _, _, _)
sample_loop(pool, k, idx, s, result) ==
    IF idx >= k THEN [result |-> result, rng |-> s]
    ELSE LET n == Len(pool)
             j == randbelow(s, n - idx) + 1
         IN sample_loop([pool EXCEPT ![j] = pool[n - idx]], k, idx + 1,
                        rng_next(s), Append(result, pool[j]))

min(a, b) == IF a < b THEN a ELSE b

sample_size_of(requested, population) == min(requested, Len(population))

---------------------------------------------------------------------------
(* send_to_webhook                                                         *)

send_to_webhook(resp, latency) ==
    CASE resp.kind = "transport" ->
            [success |-> FALSE, response |-> NoPayload,
             error |-> "ConnectionError", latency_ms |-> latency]
      [] resp.kind = "http" ->
            [success |-> FALSE, response |-> NoPayload,
             error |-> "HTTPError", latency_ms |-> latency]
      [] resp.kind = "nonjson" ->
            [success |-> FALSE, response |-> NoPayload,
             error |-> "Invalid JSON response", latency_ms |-> latency]
      [] resp.kind = "json" ->
            [success |-> TRUE, response |-> resp.payload,
             error |-> "", latency_ms |-> latency]

---------------------------------------------------------------------------
(* sklearn.metrics as main() calls it                                      *)

Labels == <<"fake", "true">>

pairs_count(yt, yp, a, p) ==
    Cardinality({k \in 1..Len(yt) : yt[k] = a /\ yp[k] = p})

(* The mutant: rows are the predicted labels, columns the actual ones.     *)
confusion_matrix_transposed(yt, yp) ==
    [a \in 1..2 |-> [p \in 1..2 |-> pairs_count(yt, yp, Labels[p], Labels[a])]]

(* confusion_matrix(y_true, y_pred, labels=["fake", "true"])               *)
confusion_matrix(yt, yp) ==
    [a \in 1..2 |-> [p \in 1..2 |-> pairs_count(yt, yp, Labels[a], Labels[p])]]

(* correct / len(y_true) * 100, kept as a fraction; an empty y_true is a   *)
(* division by zero, shown as the denominator 0                            *)
accuracy_of(yt, yp) ==
    [num |-> 100 * Cardinality({k \in 1..Len(yt) : yt[k] = yp[k]}),
     den |-> Len(yt)]

(* f1_score(pos_label="fake", average="binary"): 2tp / (2tp + fp + fn),    *)
(* and 0 when the denominator is 0                                         *)
f1_fake(yt, yp) ==
    LET cm == confusion_matrix(yt, yp)
        d  == 2 * cm[1][1] + cm[2][1] + cm[1][2]
    IN IF d = 0 THEN [num |-> 0, den |-> 1] ELSE [num |-> 2 * cm[1][1], den |-> d]

unique_labels(yt, yp) ==
    {yt[k] : k \in 1..Len(yt)} \cup {yp[k] : k \in 1..Len(yp)}

(* classification_report(y_true, y_pred, target_names=["fake", "true"])    *)
(* without labels= raises ValueError when the classes that occur are not   *)
(* as many as the target names.                                            *)
classification_report_raises(yt, yp) ==
    Cardinality(unique_labels(yt, yp)) # Len(Labels)

NoReport == [computed |-> FALSE, accuracy |-> [num |-> 0, den |-> 1],
             f1 |-> [num |-> 0, den |-> 1], pairs |-> 0,
             cm_computed |-> FALSE, cm |-> <<<<0, 0>>, <<0, 0>>>>]

---------------------------------------------------------------------------
(* Initial states                                                          *)

Files(max) == {[exists |-> FALSE, rows |-> 0]} \cup [exists : {TRUE}, rows : 0..max]

NoPrev == [set |-> FALSE, samples |-> <<>>, log |-> <<>>, latencies |-> <<>>]

(* main()'s locals before main() has run, and nothing printed or sent      *)
InitMain ==
    /\ fake_data = <<>> /\ true_data = <<>> /\ combined_data = <<>>
    /\ sample_size = 0 /\ samples = <<>> /\ i = 1
    /\ y_true = <<>> /\ y_pred = <<>> /\ latencies = <<>>
    /\ invalid_responses = 0 /\ successful_requests = 0 /\ failed_requests = 0
    /\ out = <<>> /\ log = <<>> /\ sent = <<>> /\ answers = <<>>
    /\ report = NoReport

InitParseIdle == response_data = NoPayload /\ prediction = "unset"

(* One run of either script against an endpoint that may answer anything.  *)
Init ==
    /\ InitParseIdle
    /\ script \in {"webhook", "webhook_trigger"}
    /\ env = [responses |-> Responses, latencies |-> SpecLatencies]
    /\ files \in [fake_csv : Files(MaxFake), true_csv : Files(MaxTrue)]
    /\ args \in IF script = "webhook"
                THEN [samples : -1..MaxSamples, seed : Seeds]
                ELSE {[samples |-> TriggerSamples, seed |-> [given |-> FALSE, value |-> 0]]}
    /\ rng \in 0..(RngStates - 1)
    /\ pc = IF script = "webhook" THEN "start" ELSE "load"
    /\ InitMain
    /\ prev = NoPrev

---------------------------------------------------------------------------
(* main()                                                                  *)

(* The mutant: "if args.seed:" instead of "if args.seed is not None:".     *)
seed_given_truthy(seed) == seed.given /\ seed.value # 0

seed_given(seed) == seed.given

(* webhook.py, main() up to the banner: seeds the generator when a seed    *)
(* was given and prints the banner.                                        *)
Start ==
    /\ pc = "start"
    /\ rng' = IF seed_given(args.seed) THEN seed_state(args.seed.value) ELSE rng
    /\ out' = Append(out, "banner")
    /\ pc' = "load"
    /\ UNCHANGED <<parseVars, envVars, prev, fake_data, true_data, combined_data,
                   sample_size, samples, i, y_true, y_pred, latencies,
                   invalid_responses, successful_requests, failed_requests,
                   log, sent, answers, report>>

(* The mutant: a missing file is read as an empty one.                     *)
files_found_always(f) == TRUE

files_found(f) == f.fake_csv.exists /\ f.true_csv.exists

(* The two load_csv calls.  open() raises FileNotFoundError for a missing  *)
(* file: webhook.py prints it and returns, webhook_trigger.py does not     *)
(* catch it.                                                               *)
LoadData ==
    /\ pc = "load"
    /\ IF files_found(files)
       THEN /\ fake_data' = load_csv(files.fake_csv, "fake")
            /\ true_data' = load_csv(files.true_csv, "true")
            /\ pc' = "sample"
            /\ out' = out
       ELSE /\ fake_data' = IF files.fake_csv.exists
                           THEN load_csv(files.fake_csv, "fake") ELSE fake_data
            /\ true_data' = true_data
            /\ pc' = IF script = "webhook" THEN "aborted" ELSE "crashed"
            /\ out' = Append(out, IF script = "webhook" THEN "Error: FileNotFoundError"
                                  ELSE "Traceback: FileNotFoundError")
    /\ UNCHANGED <<parseVars, envVars, prev, rng, combined_data,
                   sample_size, samples, i, y_true, y_pred, latencies,
                   invalid_responses, successful_requests, failed_requests,
                   log, sent, answers, report>>

(* random.sample(population, k): ValueError unless 0 <= k <= n, else the   *)
(* selection loop from the generator's current state.                      *)
random_sample(population, k, s) ==
    IF k < 0 \/ k > Len(population)
    THEN [raised |-> TRUE, result |-> <<>>, rng |-> s]
    ELSE LET r == sample_loop(population, k, 0, s, <<>>)
         IN [raised |-> FALSE, result |-> r.result, rng |-> r.rng]

(* combined_data, sample_size, samples and the zeroed tallies              *)
TakeSamples ==
    /\ pc = "sample"
    /\ combined_data' = fake_data \o true_data
    /\ sample_size' = sample_size_of(args.samples, combined_data')
    /\ LET r == random_sample(combined_data', sample_size', rng) IN
       IF r.raised
       THEN /\ pc' = "crashed"
            /\ out' = Append(out, "Traceback: ValueError")
            /\ UNCHANGED <<samples, rng>>
       ELSE /\ samples' = r.result
            /\ rng' = r.rng
            /\ out' = Append(out, "sending")
            /\ pc' = "loop"
    /\ i' = 1
    /\ UNCHANGED <<parseVars, envVars, prev, fake_data, true_data,
                   y_true, y_pred, latencies,
                   invalid_responses, successful_requests, failed_requests,
                   log, sent, answers, report>>

LogLine(index, kind, actual, predicted, latency, detail, response) ==
    [index |-> index, kind |-> kind, actual |-> actual, predicted |-> predicted,
     latency |-> latency, detail |-> detail, response |-> response]

(* The mutant: a failed request is not counted as an invalid response.     *)
tally_failed_not_invalid(success, p) ==
    IF success
    THEN [successful |-> 1, failed |-> 0, invalid |-> IF p = None THEN 1 ELSE 0]
    ELSE [successful |-> 0, failed |-> 1, invalid |-> 0]

(* What one sample adds to successful_requests, failed_requests and        *)
(* invalid_responses.                                                      *)
tally(success, p) ==
    IF success
    THEN [successful |-> 1, failed |-> 0, invalid |-> IF p = None THEN 1 ELSE 0]
    ELSE [successful |-> 0, failed |-> 1, invalid |-> 1]

(* The mutant: the exception of a failed request is not caught.            *)
after_request_uncaught(result) == IF result.success THEN "loop" ELSE "crashed"

(* send_to_webhook catches every requests exception and returns a result,  *)
(* so the loop goes on whatever the request met.                           *)
after_request(result) == "loop"

(* One iteration of the for loop: one POST, its latency recorded, the      *)
(* tallies and the printed line.                                           *)
ProcessSample ==
    /\ pc = "loop"
    /\ i <= sample_size
    /\ \E resp \in env.responses, latency \in env.latencies :
         LET sample       == samples[i]
             actual_label == sample.source
             result       == send_to_webhook(resp, latency)
             p            == parse_prediction(result.response)
         IN /\ sent' = Append(sent, sample)
            /\ answers' = Append(answers, resp)
            /\ latencies' = Append(latencies, result.latency_ms)
            /\ successful_requests' = successful_requests + tally(result.success, p).successful
            /\ failed_requests' = failed_requests + tally(result.success, p).failed
            /\ invalid_responses' = invalid_responses + tally(result.success, p).invalid
            /\ pc' = after_request(result)
            /\ IF result.success
               THEN IF p = None
                    THEN /\ UNCHANGED <<y_true, y_pred>>
                         /\ log' = Append(log, LogLine(i, "Invalid response format",
                                       "", "", 0, "", result.response))
                    ELSE /\ y_true' = Append(y_true, actual_label)
                         /\ y_pred' = Append(y_pred, p)
                         /\ log' = Append(log, LogLine(i,
                                       IF p = actual_label THEN "correct" ELSE "wrong",
                                       actual_label, p, result.latency_ms, "", NoPayload))
               ELSE /\ UNCHANGED <<y_true, y_pred>>
                    /\ log' = Append(log, LogLine(i, "Request failed",
                                  "", "", 0, result.error, NoPayload))
    /\ i' = i + 1
    /\ UNCHANGED <<parseVars, envVars, prev, rng, fake_data, true_data, combined_data,
                   sample_size, samples, out, report>>

(* The mutant: the classification block is entered without the guard.      *)
has_predictions_unguarded(yt, yp) == TRUE

(* "if y_true and y_pred:"                                                 *)
has_predictions(yt, yp) == yt # <<>> /\ yp # <<>>

(* The summary, from the "RESULTS SUMMARY" header to the end of main().    *)
Summarize ==
    /\ pc = "loop"
    /\ i > sample_size
    /\ LET head == out \o <<"summary">>
                       \o (IF latencies # <<>> THEN <<"latency">> ELSE <<>>)
                       \o <<"requests">>
       IN IF has_predictions(y_true, y_pred)
          THEN LET scored == [computed |-> TRUE,
                              accuracy |-> accuracy_of(y_true, y_pred),
                              f1 |-> f1_fake(y_true, y_pred),
                              pairs |-> Len(y_true),
                              cm_computed |-> FALSE,
                              cm |-> NoReport.cm]
               IN IF classification_report_raises(y_true, y_pred)
                  THEN /\ report' = scored
                       /\ out' = head \o <<"metrics", "report header",
                                           "Traceback: ValueError">>
                       /\ pc' = "crashed"
                  ELSE /\ report' = [scored EXCEPT !.cm_computed = TRUE,
                                        !.cm = confusion_matrix(y_true, y_pred)]
                       /\ out' = head \o <<"metrics", "report header", "report",
                                           "confusion matrix">>
                       /\ pc' = "done"
          ELSE /\ report' = report
               /\ out' = head \o <<"no valid predictions">>
               /\ pc' = "done"
    /\ UNCHANGED <<parseVars, envVars, prev, rng, fake_data, true_data, combined_data,
                   sample_size, samples, i, y_true, y_pred, latencies,
                   invalid_responses, successful_requests, failed_requests,
                   log, sent, answers>>

Next == Start \/ LoadData \/ TakeSamples \/ ProcessSample \/ Summarize

Spec == Init /\ [][Next]_vars

(* The process is not suspended, and every POST comes back, with an answer *)
(* or with an exception: each step of main() that can be taken is taken.   *)
FairSpec == Spec /\ WF_vars(Next)

---------------------------------------------------------------------------
(* parse_prediction on its own: every response body of the bounded set     *)

FieldNames == {CandidateFields[k] : k \in 1..Len(CandidateFields)} \cup {"confidence"}

Values ==
    { JStr(<<"F","A","K","E">>), JStr(<<" ","f","a","k","e","\n">>),
      JStr(<<"f","a","l","s","e">>), JStr(<<"R","e","a","l">>),
      JStr(<<"t","r","u","e">>), JStr(<<"m","a","y","b","e">>), JStr(<<>>),
      JStr(<<"f","a","k","e">>), JStr(<<"0">>), JStr(<<"1">>),
      JInt(0), JInt(1), JBool(TRUE), JNull, JFloat(1) }

Payloads ==
    { JNonDict(k) : k \in {"list", "str", "num", "null"} }
    \cup { JDict(d) : d \in UNION { [K -> Values] :
                 K \in {S \in SUBSET FieldNames : Cardinality(S) <= MaxFields} } }

InitIdle ==
    /\ script = "none"
    /\ env = [responses |-> {}, latencies |-> {}]
    /\ files = [fake_csv |-> [exists |-> FALSE, rows |-> 0],
                true_csv |-> [exists |-> FALSE, rows |-> 0]]
    /\ args = [samples |-> 0, seed |-> [given |-> FALSE, value |-> 0]]
    /\ rng = 0
    /\ pc = "idle"
    /\ InitMain
    /\ prev = NoPrev

InitParse ==
    /\ response_data \in Payloads
    /\ prediction = "unset"
    /\ InitIdle

Parse ==
    /\ pc = "idle"
    /\ prediction = "unset"
    /\ prediction' = parse_prediction(response_data)
    /\ UNCHANGED <<response_data, envVars, mainVars, prev>>

SpecParse == InitParse /\ [][Parse]_vars

---------------------------------------------------------------------------
(* Two runs of webhook.py, one after the other, with the same arguments    *)
(* and files, against a stub endpoint that always gives the same answer.   *)

InitTwoRuns ==
    /\ InitParseIdle
    /\ script = "webhook"
    /\ env \in {[responses |-> {r}, latencies |-> Latencies] : r \in StubResponses}
    /\ files \in [fake_csv : [exists : {TRUE}, rows : 0..MaxFake],
                  true_csv : [exists : {TRUE}, rows : 0..MaxTrue]]
    /\ args \in [samples : -1..MaxSamples, seed : Seeds]
    /\ rng \in 0..(RngStates - 1)
    /\ pc = "start"
    /\ InitMain
    /\ prev = NoPrev

(* The process has ended; the same command line is started again.  The new *)
(* process has its own generator, seeded from the system's entropy.        *)
Rerun ==
    /\ pc \in {"done", "crashed", "aborted"}
    /\ ~prev.set
    /\ prev' = [set |-> TRUE, samples |-> samples, log |-> log, latencies |-> latencies]
    /\ rng' \in 0..(RngStates - 1)
    /\ pc' = "start"
    /\ fake_data' = <<>> /\ true_data' = <<>> /\ combined_data' = <<>>
    /\ sample_size' = 0 /\ samples' = <<>> /\ i' = 1
    /\ y_true' = <<>> /\ y_pred' = <<>> /\ latencies' = <<>>
    /\ invalid_responses' = 0 /\ successful_requests' = 0 /\ failed_requests' = 0
    /\ out' = <<>> /\ log' = <<>> /\ sent' = <<>> /\ answers' = <<>>
    /\ report' = NoReport
    /\ UNCHANGED <<parseVars, envVars>>

NextTwoRuns == Next \/ Rerun

SpecTwoRuns == InitTwoRuns /\ [][NextTwoRuns]_vars

---------------------------------------------------------------------------
(* What the properties are stated in: the environment's side of a run      *)

Range(s) == {s[k] : k \in DOMAIN s}

Present(d) == {k \in 1..Len(CandidateFields) : CandidateFields[k] \in DOMAIN d}

Lowest(S) == CHOOSE x \in S : \A y \in S : x <= y

FakeWords == { <<"f","a","k","e">>, <<"f","a","l","s","e">>, <<"0">> }
TrueWords == { <<"t","r","u","e">>, <<"r","e","a","l">>, <<"1">> }

(* The label a single value stands for, None when it stands for none       *)
LabelOf(v) ==
    LET w == strip(lower(str(v))) IN
    IF w \in FakeWords THEN "fake" ELSE IF w \in TrueWords THEN "true" ELSE None

Returned == pc = "idle" /\ prediction # "unset"

(* The label the endpoint's answer carries, None for a failure and for an  *)
(* answer without a recognizable prediction                                *)
AnswerLabel(resp) ==
    IF resp = LabelFake THEN "fake" ELSE IF resp = ResultOne THEN "true" ELSE None

Failed(resp) == resp \in {Transport, HttpError, NonJson}

ValidAt == {k \in 1..Len(answers) : AnswerLabel(answers[k]) # None}

(* The (actual, predicted) pairs of the samples that got a valid answer    *)
PairsWith(a, p) ==
    Cardinality({k \in ValidAt : sent[k].source = a /\ AnswerLabel(answers[k]) = p})

SummaryPrinted == \E k \in 1..Len(out) : out[k] = "summary"

Printed(section) == \E k \in 1..Len(out) : out[k] = section

Ended == pc \in {"done", "crashed", "aborted"}

---------------------------------------------------------------------------
(* C1 (as stated): with several candidate fields present, the highest-     *)
(* priority one present decides alone: its value gives fake or true, and   *)
(* no prediction when it is not recognized, whatever the others hold.      *)
C1_FirstPresentDecides ==
    (Returned /\ response_data.kind = "dict" /\ Cardinality(Present(response_data.d)) >= 2)
    => prediction = LabelOf(response_data.d[CandidateFields[Lowest(Present(response_data.d))]])

(* C1 (amended): with several candidate fields present, the result is the  *)
(* label of the highest-priority present field whose normalized value is   *)
(* recognized; a present field with an unrecognized value is passed over,  *)
(* and the result is no prediction only when no present candidate field    *)
(* has a recognized value.  prediction "true" with label "fake" gives true.*)
C1_FirstRecognizedDecides ==
    (Returned /\ response_data.kind = "dict" /\ Cardinality(Present(response_data.d)) >= 2)
    => LET d    == response_data.d
           hits == {k \in Present(d) : LabelOf(d[CandidateFields[k]]) # None}
       IN /\ hits = {} => prediction = None
          /\ hits # {} => prediction = LabelOf(d[CandidateFields[Lowest(hits)]])
          /\ ( /\ "prediction" \in DOMAIN d /\ "label" \in DOMAIN d
               /\ d["prediction"] = JStr(<<"t","r","u","e">>)
               /\ d["label"] = JStr(<<"f","a","k","e">>) ) => prediction = "true"

(* An unrecognized prediction field is passed over and label decides.      *)
C1_Witness ==
    /\ Returned
    /\ response_data.kind = "dict"
    /\ DOMAIN response_data.d = {"prediction", "label"}
    /\ response_data.d["prediction"] = JStr(<<"m","a","y","b","e">>)
    /\ response_data.d["label"] = JStr(<<"F","A","K","E">>)
    /\ prediction = "fake"

(* C2: with at most one candidate field present, the field's value,        *)
(* lower-cased and trimmed, gives fake for fake/false/0, true for          *)
(* true/real/1 and no prediction otherwise; no candidate field, or a       *)
(* payload that is not an object, gives no prediction.                     *)
C2_SingleField ==
    Returned =>
      /\ response_data.kind # "dict" => prediction = None
      /\ (response_data.kind = "dict" /\ Present(response_data.d) = {})
            => prediction = None
      /\ (response_data.kind = "dict" /\ Cardinality(Present(response_data.d)) = 1)
            => LET f == CandidateFields[Lowest(Present(response_data.d))]
                   w == strip(lower(str(response_data.d[f])))
               IN prediction = IF w \in FakeWords THEN "fake"
                               ELSE IF w \in TrueWords THEN "true" ELSE None
      /\ response_data = JDict([f \in {"label"} |-> JStr(<<"F","A","K","E">>)])
            => prediction = "fake"
      /\ response_data = JDict([f \in {"result"} |-> JStr(<<"1">>)])
            => prediction = "true"
      /\ response_data = JDict([f \in {"prediction"} |-> JStr(<<"m","a","y","b","e">>)])
            => prediction = None
      /\ response_data = JDict(<<>>) => prediction = None

(* A padded, mixed-case value beside a field that is no candidate.         *)
C2_Witness ==
    /\ Returned
    /\ response_data.kind = "dict"
    /\ DOMAIN response_data.d = {"output", "confidence"}
    /\ response_data.d["output"] = JStr(<<" ","f","a","k","e","\n">>)
    /\ prediction = "fake"

(* C3: whatever each request meets, once the loop has started every        *)
(* sampled record is posted exactly once, in order, and the run then       *)
(* prints the results summary.                                             *)
C3_EverySampleOnceThenSummary ==
    (pc = "loop") ~>
        ( /\ SummaryPrinted
          /\ sent = samples
          /\ Len(sent) = sample_size
          /\ \A r \in Range(samples) : Cardinality({k \in 1..Len(sent) : sent[k] = r}) = 1 )

(* A run of three samples that met a transport failure, a body that is not *)
(* JSON and a valid answer, and printed the summary.                       *)
C3_Witness ==
    /\ SummaryPrinted
    /\ sample_size = 3
    /\ sent = samples
    /\ {Transport, NonJson, LabelFake} \subseteq Range(answers)

(* C4: after k samples, successful + failed = k = recorded latencies; the  *)
(* failed requests are counted once as failed and once as invalid; invalid *)
(* = failed + successful answers without a prediction; invalid + valid     *)
(* predictions = k.                                                        *)
C4_Accounting ==
    LET k            == Len(answers)
        failed       == Cardinality({j \in 1..k : Failed(answers[j])})
        unrecognized == Cardinality({j \in 1..k : ~Failed(answers[j])
                                                  /\ AnswerLabel(answers[j]) = None})
    IN /\ k = i - 1
       /\ successful_requests + failed_requests = k
       /\ Len(latencies) = k
       /\ failed_requests = failed
       /\ invalid_responses = failed + unrecognized
       /\ invalid_responses + Len(y_true) = k
       /\ Len(y_pred) = Len(y_true)

(* A finished run with a failed request, an unrecognized answer and a      *)
(* valid one.                                                              *)
C4_Witness ==
    /\ pc = "done"
    /\ failed_requests >= 1
    /\ invalid_responses > failed_requests
    /\ Len(y_true) >= 1

(* C5: for every requested count n and every population, the sampler       *)
(* returns min(n, population size) records, never more than the            *)
(* population, no record twice.                                            *)
C5_SampleSize ==
    (pc \in {"loop", "done", "crashed"} /\ files.fake_csv.exists /\ files.true_csv.exists)
    => /\ pc = "crashed" => SummaryPrinted
       /\ Len(samples) = min(args.samples, files.fake_csv.rows + files.true_csv.rows)
       /\ Len(samples) <= files.fake_csv.rows + files.true_csv.rows
       /\ \A a, b \in 1..Len(samples) : samples[a] = samples[b] => a = b
       /\ Range(samples) \subseteq Range(combined_data)

(* C5, for the counts that are not negative: the sampler returns           *)
(* min(n, population size) records of the population, none of them twice.  *)
C5_NonNegativeCount ==
    (pc \in {"loop", "done", "crashed"} /\ files.fake_csv.exists /\ files.true_csv.exists
       /\ args.samples >= 0)
    => /\ pc = "crashed" => SummaryPrinted
       /\ Len(samples) = min(args.samples, files.fake_csv.rows + files.true_csv.rows)
       /\ \A a, b \in 1..Len(samples) : samples[a] = samples[b] => a = b
       /\ Range(samples) \subseteq Range(combined_data)

(* C6: when either data file is missing the run ends with a reported       *)
(* error, no request is sent and no summary is printed.                    *)
C6_MissingFileAborts ==
    ~(files.fake_csv.exists /\ files.true_csv.exists)
    => /\ sent = <<>>
       /\ ~SummaryPrinted
       /\ ~report.computed
       /\ pc \in {"start", "load", "aborted", "crashed"}
       /\ pc \in {"aborted", "crashed"}
             => (Printed("Error: FileNotFoundError")
                   \/ Printed("Traceback: FileNotFoundError"))

(* webhook.py has met a missing true file and returned.                    *)
C6_Witness ==
    /\ files.fake_csv.exists /\ ~files.true_csv.exists
    /\ pc = "aborted"
    /\ Printed("Error: FileNotFoundError")

(* C7 (as stated): a second run with the same population, count and seed   *)
(* selects the same records in the same order and prints the same          *)
(* per-sample log.                                                         *)
C7_SameLog ==
    (prev.set /\ args.seed.given /\ Ended)
    => (samples = prev.samples /\ log = prev.log)

(* C7 (amended): a second run with the same population, count and seed     *)
(* (any integer, 0 included) selects the same records in the same order,   *)
(* and against an endpoint that always answers the same it prints the same *)
(* per-sample log except for the latency measured for each request.        *)
C7_SameSamples ==
    (prev.set /\ args.seed.given /\ pc \in {"loop", "done", "crashed"})
    => /\ samples = prev.samples
       /\ Ended => /\ Len(log) = Len(prev.log)
                   /\ \A k \in 1..Len(log) :
                        [log[k] EXCEPT !.latency = 0] = [prev.log[k] EXCEPT !.latency = 0]

(* Two finished runs with seed 0 over three records, two of them sampled,  *)
(* whose measured latencies differ.                                        *)
C7_Witness ==
    /\ prev.set /\ pc = "done"
    /\ args.seed.given /\ args.seed.value = 0
    /\ Len(combined_data) = 3 /\ Len(samples) = 2
    /\ samples = prev.samples
    /\ latencies # prev.latencies

(* C8: when no sample got a valid prediction (all failed or unrecognized,  *)
(* or the sample is empty), the summary skips the classification metrics,  *)
(* prints the warning and the run ends without an error.                   *)
C8_NoValidPredictions ==
    (SummaryPrinted /\ ValidAt = {})
    => /\ pc = "done"
       /\ out[Len(out)] = "no valid predictions"
       /\ ~Printed("metrics") /\ ~Printed("report") /\ ~Printed("confusion matrix")
       /\ ~report.computed

(* A summarized run of two samples, one failed and one unrecognized.       *)
C8_Witness ==
    /\ SummaryPrinted
    /\ sample_size = 2
    /\ Range(answers) = {HttpError, Maybe}
    /\ Printed("no valid predictions")

(* C9: the metrics are computed over exactly the samples with a valid      *)
(* prediction, each paired with the label of the record posted: accuracy   *)
(* is matching pairs over pairs (printed as a percentage), the confusion   *)
(* matrix entry [a][p] counts the pairs (a, p), the four entries sum to    *)
(* the number of pairs; (fake,fake), (fake,true), (true,true) give 2/3 and *)
(* [[1,1],[0,1]].                                                          *)
C9_Metrics ==
    /\ report.computed =>
         /\ report.pairs = Cardinality(ValidAt)
         /\ report.pairs > 0
         /\ report.accuracy.den = report.pairs
         /\ report.accuracy.num = 100 * (PairsWith("fake", "fake") + PairsWith("true", "true"))
    /\ report.cm_computed =>
         /\ \A a, p \in 1..2 : report.cm[a][p] = PairsWith(Labels[a], Labels[p])
         /\ report.cm[1][1] + report.cm[1][2] + report.cm[2][1] + report.cm[2][2]
               = report.pairs
         /\ ( /\ PairsWith("fake", "fake") = 1 /\ PairsWith("fake", "true") = 1
              /\ PairsWith("true", "true") = 1 /\ PairsWith("true", "fake") = 0 )
            => /\ 3 * report.accuracy.num = 2 * 100 * report.accuracy.den
               /\ report.cm = <<<<1, 1>>, <<0, 1>>>>

(* The pairs (fake,fake), (fake,true), (true,true), with one more sample   *)
(* that failed or is absent.                                               *)
C9_Witness ==
    /\ pc = "done"
    /\ report.cm_computed
    /\ report.cm = <<<<1, 1>>, <<0, 1>>>>
    /\ report.accuracy = [num |-> 200, den |-> 3]

(* C10: whenever at least one sample got a valid prediction, the summary   *)
(* completes without an error and prints accuracy, the F1 scores, the      *)
(* per-class report and the confusion matrix, also when only one class     *)
(* occurs among the actual and predicted labels.                           *)
C10_SummaryCompletes ==
    (SummaryPrinted /\ ValidAt # {})
    => /\ pc = "done"
       /\ Printed("metrics") /\ Printed("report") /\ Printed("confusion matrix")

=============================================================================
